---- MODULE Spec2Model ----
(***************************************************************************)
(* Campus Internship & Placement Portal API (src/main.py, src/schemas.py). *)
(* The model covers the "application" collection and its three handlers    *)
(* (create_application, list_applications, update_application) and the     *)
(* recommendation scorer (recommend_openings), over a document store with  *)
(* insert_one / find_one / find / update_one.                              *)
(*                                                                         *)
(* Encoding of Python values:                                              *)
(*   Optional[T]   None is <<>>, a value v is <<v>>                        *)
(*   str           a TLA+ string; a path id is a sequence of characters    *)
(*   ObjectId      the sequence of its lower-case hex digits               *)
(*   datetime      a natural number (ticks of the server clock)            *)
(***************************************************************************)
EXTENDS Integers, Sequences, FiniteSets, TLC

VARIABLES
    apps,      \* the "application" collection, in insertion order
    ever,      \* history: ever[i] iff apps[i].status has at some point been "completed"
    issued,    \* history: the (application _id, certificate_url) pairs transitions wrote
    users,     \* the "user" collection
    openings,  \* the "opening" collection
    now,       \* the last value the server clock returned
    pc,        \* per worker: where its request handler stands
    loc,       \* per worker: the handler's local variables
    last       \* the last request that returned, with its response

vars == <<apps, ever, issued, users, openings, now, pc, loc, last>>

----------------------------------------------------------------------------
(* Bounds *)

MaxApps == 2        \* documents the application collection may hold
MaxClock == 3       \* clock readings (every insert and every update reads it once)
MaxOpenings == 3    \* openings in the collection of the recommendation runs
MaxLimit == 3       \* largest limit a recommendation request passes

----------------------------------------------------------------------------
(* Optional values *)

None == <<>>
Some(v) == <<v>>
Truthy(o) == o # None /\ o[1] # ""

----------------------------------------------------------------------------
(* bson.ObjectId, as used at main.py:120 and main.py:177 *)

OidLen == 2    \* an ObjectId string has 24 hex digits; 2 here

HexLower(c) ==
    CASE c = "A" -> "a"
      [] c = "B" -> "b"
      [] OTHER -> c

IsHex(c) == c \in {"a", "b", "A", "B"}

\* ObjectId(s) raises InvalidId unless s is OidLen hex digits
ObjectIdValid(s) == Len(s) = OidLen /\ \A i \in 1..Len(s) : IsHex(s[i])

\* the ObjectId a valid string denotes: hex digits are read case-insensitively
ObjectId(s) == [i \in 1..Len(s) |-> HexLower(s[i])]

\* str(ObjectId): the lower-case hex digits
OidStr(oid) == oid

\* ids the store may generate on insert
GenOids == {<<"a", "a">>, <<"a", "b">>, <<"b", "a">>}

\* id strings a caller may put in the path of a recommendation request
StudentPathIds == { <<"b", "a">>, <<"b", "b">>, <<"g", "a">> }

\* the id strings the concurrent workers send
ConcPathIds == { <<"a", "a">>, <<"b", "b">>, <<"g", "a">> }

\* id strings a caller may put in the path
PathIds ==
    { <<"a", "a">>, <<"A", "a">>, <<"a", "b">>, <<"b", "b">>,
      <<"g", "a">>, <<"a">> }

----------------------------------------------------------------------------
(* Request values *)

StudentIds == {"s1"}
OpeningIds == {"o1", "o2"}

\* a URL a caller may submit as certificate_url
CallerCert == <<"https://elsewhere.example/", <<"x">>, ".pdf">>

\* schemas.Application with its defaults: status "applied", every Optional None
ApplicationDefaults(s, o) ==
    [ student_id |-> s, opening_id |-> o, status |-> "applied",
      mentor_id |-> None, interview_datetime |-> None,
      interview_location |-> None, feedback |-> None,
      certificate_url |-> None ]

\* request bodies of POST /applications: the defaults, and bodies that set
\* fields the schema lets the caller set
ApplicationBodies ==
    UNION { { ApplicationDefaults(s, o),
              [ApplicationDefaults(s, o) EXCEPT !.status = "completed"],
              [ApplicationDefaults(s, o) EXCEPT !.mentor_id = Some("m1"),
                                                !.certificate_url = Some(CallerCert)] }
            : s \in StudentIds, o \in OpeningIds }

PatchKeys ==
    {"status", "mentor_id", "interview_datetime", "interview_location", "feedback"}

\* main.ApplicationUpdate with its defaults: every field None
EmptyPatch ==
    [ status |-> None, mentor_id |-> None, interview_datetime |-> None,
      interview_location |-> None, feedback |-> None ]

\* request bodies of PATCH /applications/{id}
Patches ==
    { EmptyPatch,
      [EmptyPatch EXCEPT !.status = Some("completed")],
      [EmptyPatch EXCEPT !.status = Some("under_review"), !.mentor_id = Some("m2"),
                         !.feedback = Some("good")],
      [EmptyPatch EXCEPT !.interview_datetime = Some(7),
                         !.interview_location = Some("room")] }

\* the bodies the concurrent workers send
ConcBodies == { ApplicationDefaults("s1", "o1"), ApplicationDefaults("s1", "o2") }

ConcPatches == { EmptyPatch, [EmptyPatch EXCEPT !.status = Some("completed")] }

\* query filters of GET /applications
ListFilters ==
    { [student_id |-> None, opening_id |-> None, mentor_id |-> None],
      [student_id |-> Some("s1"), opening_id |-> Some("o1"), mentor_id |-> None],
      [student_id |-> Some(""), opening_id |-> None, mentor_id |-> Some("m2")] }

----------------------------------------------------------------------------
(* The document store *)

Indexes(coll) == 1..Len(coll)

\* find_one({"_id": oid}): position of the first match, 0 when there is none
FindById(coll, oid) ==
    IF \E i \in Indexes(coll) : coll[i]._id = oid
    THEN CHOOSE i \in Indexes(coll) :
            /\ coll[i]._id = oid
            /\ \A j \in 1..(i - 1) : coll[j]._id # oid
    ELSE 0

\* find_one({"student_id": s, "opening_id": o}) finds a document
ExistsPair(coll, s, o) ==
    \E i \in Indexes(coll) : coll[i].student_id = s /\ coll[i].opening_id = o

\* ids not yet in the collection: insert_one generates one of them
FreshOids(coll) == GenOids \ { coll[i]._id : i \in Indexes(coll) }

\* database.create_document: dump the model, stamp created_at / updated_at,
\* insert under a generated _id
NewDocument(data, oid, t) ==
    [ _id |-> oid,
      student_id |-> data.student_id, opening_id |-> data.opening_id,
      status |-> data.status, mentor_id |-> data.mentor_id,
      interview_datetime |-> data.interview_datetime,
      interview_location |-> data.interview_location,
      feedback |-> data.feedback, certificate_url |-> data.certificate_url,
      created_at |-> t, updated_at |-> t ]

\* {"$set": upd} applied to one document
ApplySet(doc, upd) ==
    [ k \in (DOMAIN doc) \cup (DOMAIN upd) |->
        IF k \in DOMAIN upd THEN upd[k] ELSE doc[k] ]

\* a $set that reaches every document (update_many with a filter that is lost)
UpdateMany(coll, oid, upd) ==
    IF FindById(coll, oid) = 0 THEN coll
    ELSE [ i \in Indexes(coll) |-> ApplySet(coll[i], upd) ]

\* update_one({"_id": oid}, {"$set": upd}): the collection afterwards
UpdateOne(coll, oid, upd) ==
    LET i == FindById(coll, oid)
    IN  IF i = 0 THEN coll ELSE [coll EXCEPT ![i] = ApplySet(coll[i], upd)]

\* serialize_doc: _id becomes the string id, datetimes become ISO strings
IsoFormat(t) == <<"iso", t>>

SerializeApplication(doc) ==
    [ id |-> OidStr(doc._id),
      student_id |-> doc.student_id, opening_id |-> doc.opening_id,
      status |-> doc.status, mentor_id |-> doc.mentor_id,
      interview_datetime |->
          IF doc.interview_datetime = None THEN None
          ELSE Some(IsoFormat(doc.interview_datetime[1])),
      interview_location |-> doc.interview_location,
      feedback |-> doc.feedback, certificate_url |-> doc.certificate_url,
      created_at |-> IsoFormat(doc.created_at),
      updated_at |-> IsoFormat(doc.updated_at) ]

----------------------------------------------------------------------------
(* update_application, lines 181-187: the $set document *)

\* the value $set stores for a patch field: status is a plain string in the
\* document, the other fields are Optional
Stored(k, o) == IF k = "status" THEN o[1] ELSE o

CertificateUrl(application_id) ==
    <<"https://certs.example.com/", application_id, ".pdf">>

\* a $set document whose certificate does not wait for status "completed"
UpdateDictAlwaysCert(application_id, payload, t) ==
    LET given == { k \in PatchKeys : payload[k] # None }
        keys == given \cup {"certificate_url", "updated_at"}
    IN  [ k \in keys |->
            IF k = "updated_at" THEN t
            ELSE IF k = "certificate_url"
                 THEN Some(CertificateUrl(application_id))
                 ELSE Stored(k, payload[k]) ]

UpdateDict(application_id, payload, t) ==
    LET given == { k \in PatchKeys : payload[k] # None }
        completed == "status" \in given /\ payload.status[1] = "completed"
        keys == given \cup (IF completed THEN {"certificate_url"} ELSE {})
                      \cup {"updated_at"}
    IN  [ k \in keys |->
            IF k = "updated_at" THEN t
            ELSE IF k = "certificate_url"
                 THEN Some(CertificateUrl(application_id))
                 ELSE Stored(k, payload[k]) ]

\* the history variable after a $set: a written status "completed" is remembered
EverAfter(coll, hist, oid, upd) ==
    LET i == FindById(coll, oid)
    IN  IF i = 0 THEN hist
        ELSE [hist EXCEPT ![i] = @ \/ ("status" \in DOMAIN upd /\ upd["status"] = "completed")]

\* the history variable after a $set: a written certificate is remembered with
\* the _id of the document it was written to
IssuedAfter(coll, iss, oid, upd) ==
    IF FindById(coll, oid) # 0 /\ "certificate_url" \in DOMAIN upd
    THEN iss \cup { [oid |-> oid, url |-> upd["certificate_url"]] }
    ELSE iss

----------------------------------------------------------------------------
(* recommend_openings, lines 123-132 *)

\* set(list)
ToSet(list) == { list[i] : i \in 1..Len(list) }

\* a score whose department bonus does not ask for a non-empty department
ScoreAnyDepartment(student, o) ==
    Cardinality(ToSet(student.skills) \cap ToSet(o.skills_required))
    + (IF student.department = o.department THEN 1 ELSE 0)

\* line 129: the overlap of the skills, plus one for a department match
Score(student, o) ==
    Cardinality(ToSet(student.skills) \cap ToSet(o.skills_required))
    + (IF Truthy(student.department) /\ student.department = o.department
       THEN 1 ELSE 0)

\* lines 125-130: scored = [(score, o) for o in openings]
Scored(student, opens) ==
    [ i \in 1..Len(opens) |-> [score |-> Score(student, opens[i]), o |-> opens[i]] ]

\* one pair put into a list that is sorted by descending score, behind the
\* pairs of the same score
InsertByScore(sorted, x) ==
    LET k == Cardinality({ i \in 1..Len(sorted) : sorted[i].score >= x.score })
    IN  SubSeq(sorted, 1, k) \o <<x>> \o SubSeq(sorted, k + 1, Len(sorted))

\* line 131: list.sort(key=score, reverse=True), a stable sort
RECURSIVE SortByScore(_)
SortByScore(list) ==
    IF list = <<>> THEN <<>>
    ELSE InsertByScore(SortByScore(SubSeq(list, 1, Len(list) - 1)), list[Len(list)])

\* list[:limit], a negative limit counting from the end
Slice(list, limit) ==
    IF limit >= 0
    THEN SubSeq(list, 1, IF limit < Len(list) THEN limit ELSE Len(list))
    ELSE SubSeq(list, 1, IF Len(list) + limit > 0 THEN Len(list) + limit ELSE 0)

\* serialize_doc(o) | {"match_score": s}
SerializeMatch(x) ==
    [ id |-> OidStr(x.o._id), title |-> x.o.title, company |-> x.o.company,
      department |-> x.o.department, skills_required |-> x.o.skills_required,
      match_score |-> x.score ]

Recommend(student, opens, limit) ==
    LET top == Slice(SortByScore(Scored(student, opens)), limit)
    IN  [ i \in 1..Len(top) |-> SerializeMatch(top[i]) ]

----------------------------------------------------------------------------
(* Responses *)

Workers == {1, 2}

NoLocals == <<>>

Response(op, arg, code, detail, body) ==
    [op |-> op, arg |-> arg, code |-> code, detail |-> detail, body |-> body]

NoRequest == Response("none", None, 0, "", None)

\* create_application, line 143 and line 146
AlreadyExists(apply) == Response("create", apply, 400, "Application already exists", None)

Created(apply, oid) == Response("create", apply, 200, "", Some(OidStr(oid)))

\* an invalid id answered like a missing document
InvalidIdAsNotFound(arg) == Response("update", arg, 404, "Application not found", None)

\* update_application, line 179, line 191 and line 194
InvalidId(arg) == Response("update", arg, 400, "Invalid application id", None)

NotFound(arg) == Response("update", arg, 404, "Application not found", None)

Updated(arg, doc) == Response("update", arg, 200, "", Some(SerializeApplication(doc)))

AllIdle == \A w \in Workers : pc[w] = "idle"

----------------------------------------------------------------------------
(* Handlers run one at a time: each request runs from its first line to its *)
(* response before the next one starts                                      *)

\* the insert of create_application, line 144
InsertApplication(apply) ==
    \E oid \in FreshOids(apps) :
        /\ now' = now + 1
        /\ apps' = Append(apps, NewDocument(apply, oid, now'))
        /\ ever' = Append(ever, apply.status = "completed")
        /\ last' = Created(apply, oid)
        /\ UNCHANGED issued

\* a create that does not look for an existing application
CreateApplicationNoLookup(apply) ==
    /\ AllIdle
    /\ Len(apps) < MaxApps
    /\ now < MaxClock
    /\ InsertApplication(apply)
    /\ UNCHANGED <<users, openings, pc, loc>>

\* POST /applications, lines 136-146
CreateApplication(apply) ==
    /\ AllIdle
    /\ IF ExistsPair(apps, apply.student_id, apply.opening_id)
       THEN /\ last' = AlreadyExists(apply)
            /\ UNCHANGED <<apps, ever, issued, now>>
       ELSE /\ Len(apps) < MaxApps
            /\ now < MaxClock
            /\ InsertApplication(apply)
    /\ UNCHANGED <<users, openings, pc, loc>>

\* the query filter of list_applications, lines 163-169: a falsy parameter
\* puts no condition on its field
Matches(doc, filt) ==
    /\ Truthy(filt.student_id) => doc.student_id = filt.student_id[1]
    /\ Truthy(filt.opening_id) => doc.opening_id = filt.opening_id[1]
    /\ Truthy(filt.mentor_id) => doc.mentor_id = filt.mentor_id

\* database.get_documents(collection, filt): the matching documents, in store order
RECURSIVE GetDocuments(_, _)
GetDocuments(coll, filt) ==
    IF coll = <<>> THEN <<>>
    ELSE LET rest == GetDocuments(Tail(coll), filt)
         IN  IF Matches(Head(coll), filt) THEN <<Head(coll)>> \o rest ELSE rest

\* GET /applications, lines 157-171
ListApplications(filt) ==
    /\ AllIdle
    /\ LET docs == GetDocuments(apps, filt)
       IN  last' = Response("list", filt, 200, "",
                            Some([i \in 1..Len(docs) |-> SerializeApplication(docs[i])]))
    /\ UNCHANGED <<apps, ever, issued, users, openings, now, pc, loc>>

\* PATCH /applications/{application_id}, lines 174-194
UpdateApplication(application_id, payload) ==
    /\ AllIdle
    /\ IF ~ObjectIdValid(application_id)
       THEN /\ last' = InvalidId(<<application_id, payload>>)
            /\ UNCHANGED <<apps, ever, issued, now>>
       ELSE /\ now < MaxClock
            /\ now' = now + 1
            /\ LET _id == ObjectId(application_id)
                   update_dict == UpdateDict(application_id, payload, now')
                   matched == FindById(apps, _id)
               IN  /\ apps' = UpdateOne(apps, _id, update_dict)
                   /\ ever' = EverAfter(apps, ever, _id, update_dict)
                   /\ issued' = IssuedAfter(apps, issued, _id, update_dict)
                   /\ last' =
                        IF matched = 0
                        THEN NotFound(<<application_id, payload>>)
                        ELSE Updated(<<application_id, payload>>, apps'[matched])
    /\ UNCHANGED <<users, openings, pc, loc>>

\* GET /openings/recommendations, lines 117-132; ObjectId(student_id) is not
\* guarded, so a malformed id ends the request with the server's 500
RecommendOpenings(student_id, limit) ==
    /\ AllIdle
    /\ IF ~ObjectIdValid(student_id)
       THEN last' = Response("recommend", <<student_id, limit>>,
                             500, "Internal Server Error", None)
       ELSE LET i == FindById(users, ObjectId(student_id))
            IN  IF i = 0
                THEN last' = Response("recommend", <<student_id, limit>>,
                                      404, "Student not found", None)
                ELSE last' = Response("recommend", <<student_id, limit>>, 200, "",
                                      Some(Recommend(users[i], openings, limit)))
    /\ UNCHANGED <<apps, ever, issued, users, openings, now, pc, loc>>

----------------------------------------------------------------------------
(* Handlers run by concurrent workers: FastAPI runs the plain "def" handlers *)
(* in a thread pool, so the store calls of two requests interleave. A step   *)
(* is the code up to and including one store call.                           *)

\* store inserts that requests in flight still have to do
PendingInserts == Cardinality({ w \in Workers : pc[w] = "create_insert" })

\* create_application, lines 139-143: the duplicate lookup
CreateFind(w, apply) ==
    /\ pc[w] = "idle"
    /\ IF ExistsPair(apps, apply.student_id, apply.opening_id)
       THEN /\ last' = AlreadyExists(apply)
            /\ UNCHANGED <<pc, loc>>
       ELSE /\ Len(apps) + PendingInserts < MaxApps
            /\ now + PendingInserts < MaxClock
            /\ pc' = [pc EXCEPT ![w] = "create_insert"]
            /\ loc' = [loc EXCEPT ![w] = [apply |-> apply]]
            /\ UNCHANGED last
    /\ UNCHANGED <<apps, ever, issued, users, openings, now>>

\* an insert into a collection with a unique index on the pair: the store
\* refuses the second document and the request ends with the server's 500
CreateInsertUnique(w) ==
    /\ pc[w] = "create_insert"
    /\ IF ExistsPair(apps, loc[w].apply.student_id, loc[w].apply.opening_id)
       THEN /\ last' = Response("create", loc[w].apply, 500, "Internal Server Error", None)
            /\ UNCHANGED <<apps, ever, issued, now>>
       ELSE InsertApplication(loc[w].apply)
    /\ pc' = [pc EXCEPT ![w] = "idle"]
    /\ loc' = [loc EXCEPT ![w] = NoLocals]
    /\ UNCHANGED <<users, openings>>

\* create_application, lines 144-146: the insert
CreateInsert(w) ==
    /\ pc[w] = "create_insert"
    /\ InsertApplication(loc[w].apply)
    /\ pc' = [pc EXCEPT ![w] = "idle"]
    /\ loc' = [loc EXCEPT ![w] = NoLocals]
    /\ UNCHANGED <<users, openings>>

\* update_application, lines 176-187: parse the id, build the $set document,
\* read the clock
UpdateBegin(w, application_id, payload) ==
    /\ pc[w] = "idle"
    /\ IF ~ObjectIdValid(application_id)
       THEN /\ last' = InvalidId(<<application_id, payload>>)
            /\ UNCHANGED <<now, pc, loc>>
       ELSE /\ now + PendingInserts < MaxClock
            /\ now' = now + 1
            /\ pc' = [pc EXCEPT ![w] = "update_write"]
            /\ loc' = [loc EXCEPT ![w] =
                        [ application_id |-> application_id, payload |-> payload,
                          _id |-> ObjectId(application_id),
                          update_dict |-> UpdateDict(application_id, payload, now') ]]
            /\ UNCHANGED last
    /\ UNCHANGED <<apps, ever, issued, users, openings>>

\* update_application, lines 189-191: update_one and the matched_count test
UpdateWrite(w) ==
    /\ pc[w] = "update_write"
    /\ apps' = UpdateOne(apps, loc[w]._id, loc[w].update_dict)
    /\ ever' = EverAfter(apps, ever, loc[w]._id, loc[w].update_dict)
    /\ issued' = IssuedAfter(apps, issued, loc[w]._id, loc[w].update_dict)
    /\ IF FindById(apps, loc[w]._id) = 0
       THEN /\ last' = NotFound(<<loc[w].application_id, loc[w].payload>>)
            /\ pc' = [pc EXCEPT ![w] = "idle"]
            /\ loc' = [loc EXCEPT ![w] = NoLocals]
       ELSE /\ pc' = [pc EXCEPT ![w] = "update_read"]
            /\ UNCHANGED <<loc, last>>
    /\ UNCHANGED <<users, openings, now>>

\* update_application, lines 193-194: the fresh read that is returned
UpdateRead(w) ==
    /\ pc[w] = "update_read"
    /\ last' = Updated(<<loc[w].application_id, loc[w].payload>>,
                       apps[FindById(apps, loc[w]._id)])
    /\ pc' = [pc EXCEPT ![w] = "idle"]
    /\ loc' = [loc EXCEPT ![w] = NoLocals]
    /\ UNCHANGED <<apps, ever, issued, users, openings, now>>

----------------------------------------------------------------------------
(* Specifications *)

\* the profile and the openings of the scenario of the recommendation scorer
ScenarioUsers ==
    << [ _id |-> <<"b", "a">>, name |-> "S", role |-> "student",
         department |-> Some("CS"), skills |-> <<"python", "sql">> ] >>

ScenarioOpenings ==
    << [ _id |-> <<"a", "a">>, title |-> "O1", company |-> "C",
         department |-> Some("CS"), skills_required |-> <<"python">> ],
       [ _id |-> <<"a", "b">>, title |-> "O2", company |-> "C",
         department |-> Some("EE"), skills_required |-> <<"python", "sql", "ml">> ] >>

InitRequests ==
    /\ now = 0
    /\ pc = [w \in Workers |-> "idle"]
    /\ loc = [w \in Workers |-> NoLocals]
    /\ last = NoRequest

Init ==
    /\ apps = <<>>
    /\ ever = <<>>
    /\ issued = {}
    /\ users = ScenarioUsers
    /\ openings = ScenarioOpenings
    /\ InitRequests

Limits == (-1)..MaxLimit

\* requests served one at a time
Next ==
    \/ \E apply \in ApplicationBodies : CreateApplication(apply)
    \/ \E filt \in ListFilters : ListApplications(filt)
    \/ \E id \in PathIds, payload \in Patches : UpdateApplication(id, payload)
    \/ \E id \in StudentPathIds, limit \in {0, MaxLimit} : RecommendOpenings(id, limit)

Spec == Init /\ [][Next]_vars

\* create and update requests served by concurrent workers
NextConc ==
    \/ \E w \in Workers, apply \in ConcBodies : CreateFind(w, apply)
    \/ \E w \in Workers : CreateInsert(w)
    \/ \E w \in Workers, id \in ConcPathIds, payload \in ConcPatches :
            UpdateBegin(w, id, payload)
    \/ \E w \in Workers : UpdateWrite(w)
    \/ \E w \in Workers : UpdateRead(w)

SpecConc == Init /\ [][NextConc]_vars

\* the recommendation scorer over every small profile and opening list
RecStudents ==
    { [ _id |-> <<"b", "a">>, name |-> "S", role |-> "student",
        department |-> d, skills |-> sk ] :
      d \in {None, Some(""), Some("CS")},
      sk \in { <<"python", "sql">>, <<"python", "python">> } }

RecOpeningShapes ==
    { [department |-> d, skills_required |-> sk] :
      d \in {None, Some(""), Some("CS")},
      sk \in { <<>>, <<"sql", "python", "ml">> } }

\* the ids of the stored openings, by position
OidOrder == << <<"a", "a">>, <<"a", "b">>, <<"b", "a">>, <<"b", "b">> >>

OpeningDocs(shapes) ==
    [ i \in 1..Len(shapes) |->
        [ _id |-> OidOrder[((i - 1) % Len(OidOrder)) + 1], title |-> "O", company |-> "C",
          department |-> shapes[i].department,
          skills_required |-> shapes[i].skills_required ] ]

InitRec ==
    /\ apps = <<>>
    /\ ever = <<>>
    /\ issued = {}
    /\ users \in { <<u>> : u \in RecStudents }
    /\ \E n \in 0..MaxOpenings :
         openings \in { OpeningDocs(shapes) : shapes \in [1..n -> RecOpeningShapes] }
    /\ InitRequests

NextRec ==
    \E id \in StudentPathIds, limit \in Limits : RecommendOpenings(id, limit)

SpecRec == InitRec /\ [][NextRec]_vars

----------------------------------------------------------------------------
(* Properties *)

\* the position update_application's filter matches for a path id, 0 for none
Target(coll, application_id) ==
    IF ObjectIdValid(application_id) THEN FindById(coll, ObjectId(application_id)) ELSE 0

PairsOf(coll) ==
    { <<coll[i].student_id, coll[i].opening_id>> : i \in Indexes(coll) }

UniquePairs(coll) ==
    \A i, j \in Indexes(coll) :
        (coll[i].student_id = coll[j].student_id
            /\ coll[i].opening_id = coll[j].opening_id) => i = j

OptionalKeys ==
    {"mentor_id", "interview_datetime", "interview_location", "feedback",
     "certificate_url"}

\* C1: with creates run one at a time the store never holds two Applications
\* of one (student_id, opening_id) pair; a create for a stored pair answers
\* "Application already exists" and leaves the store as it was; a create for
\* a new pair answers 200 and appends exactly one Application of that pair.
C1_OnePerPair ==
    [][ /\ UniquePairs(apps')
        /\ last'.op = "create" =>
             IF <<last'.arg.student_id, last'.arg.opening_id>> \in PairsOf(apps)
             THEN /\ last'.code = 400
                  /\ last'.detail = "Application already exists"
                  /\ apps' = apps
             ELSE /\ last'.code = 200
                  /\ Len(apps') = Len(apps) + 1
                  /\ SubSeq(apps', 1, Len(apps)) = apps
                  /\ apps'[Len(apps')].student_id = last'.arg.student_id
                  /\ apps'[Len(apps')].opening_id = last'.arg.opening_id
      ]_vars

\* two Applications of one student for different openings are stored, and a
\* further create for one of the pairs was refused
C1_Witness ==
    /\ Len(apps) = 2
    /\ apps[1].student_id = apps[2].student_id
    /\ apps[1].opening_id # apps[2].opening_id
    /\ last.op = "create"
    /\ last.code = 400
    /\ last.arg.student_id = apps[1].student_id
    /\ last.arg.opening_id = apps[1].opening_id

\* C2: the insert of a concurrent create is not conditioned on the pair: a
\* worker that passed the duplicate lookup always stores its Application and
\* answers 200, also when the pair has been stored since its lookup.
C2_InsertAfterLookup ==
    [][ \A w \in Workers :
          (pc[w] = "create_insert" /\ pc'[w] = "idle") =>
             /\ Len(apps') = Len(apps) + 1
             /\ apps'[Len(apps')].student_id = loc[w].apply.student_id
             /\ apps'[Len(apps')].opening_id = loc[w].apply.opening_id
             /\ last'.op = "create"
             /\ last'.code = 200
      ]_vars

\* both creates answered 200 and the store holds two Applications of one pair
C2_Witness ==
    /\ Len(apps) = 2
    /\ apps[1].student_id = apps[2].student_id
    /\ apps[1].opening_id = apps[2].opening_id
    /\ apps[1]._id # apps[2]._id
    /\ last.op = "create"
    /\ last.code = 200

\* C3: the Application a successful create stores has status "applied" and
\* every optional field empty, whatever the request carried.
C3_CreatedApplied ==
    (last.op = "create" /\ last.code = 200) =>
        /\ apps[Len(apps)].status = "applied"
        /\ \A k \in OptionalKeys : apps[Len(apps)][k] = None

\* C4: certificate_url is present exactly on the Applications whose status has
\* at some point been "completed", and once present it is never cleared or
\* changed.
C4_CertificateIffCompleted ==
    [][ /\ \A i \in Indexes(apps') : (apps'[i].certificate_url # None) <=> ever'[i]
        /\ \A i \in Indexes(apps) :
             apps[i].certificate_url # None =>
                apps'[i].certificate_url = apps[i].certificate_url
      ]_vars

\* C5: the stored updated_at of an Application never decreases under any
\* interleaving of transitions: the write of a transition that read the clock
\* after the Application was stored leaves updated_at at least what it was.
C5_UpdatedAtMonotonic ==
    [][ \A w \in Workers :
          LET i == FindById(apps, loc[w]._id)
          IN  ( /\ pc[w] = "update_write"
                /\ pc'[w] # "update_write"
                /\ i # 0
                /\ loc[w].update_dict["updated_at"] > apps[i].created_at )
              => apps'[i].updated_at >= apps[i].updated_at
      ]_vars

\* the path ids of the requests that are no ObjectId: a wrong length, or a
\* character that is no hex digit
Malformed(application_id) ==
    \/ Len(application_id) # OidLen
    \/ \E i \in 1..Len(application_id) :
          application_id[i] \notin {"a", "b", "A", "B"}

\* C6: update answers 400 "Invalid application id" exactly for a malformed id
\* and 404 "Application not found" exactly for a well-formed id that no stored
\* Application has; in both cases the store is left as it was.
C6_ErrorsDistinct ==
    [][ last'.op = "update" =>
          LET id == last'.arg[1]
              absent == \A i \in Indexes(apps) :
                           apps[i]._id # [j \in 1..Len(id) |-> HexLower(id[j])]
          IN  /\ Malformed(id) <=> last'.code = 400
              /\ (~Malformed(id) /\ absent) <=> last'.code = 404
              /\ last'.code = 400 => last'.detail = "Invalid application id"
              /\ last'.code = 404 => last'.detail = "Application not found"
              /\ last'.code \in {400, 404} => apps' = apps
      ]_vars

\* a well-formed id that no stored Application has was answered 404 while the
\* store holds Applications
C6_Witness ==
    /\ last.op = "update"
    /\ last.code = 404
    /\ ~Malformed(last.arg[1])
    /\ Len(apps) > 0

\* the fields of a stored Application that no patch names
FrameKeys == {"_id", "student_id", "opening_id", "created_at"}

ClaimedScore(student, o) ==
    Cardinality({ sk \in ToSet(student.skills) : sk \in ToSet(o.skills_required) })
    + (IF student.department \notin {None, Some("")}
          /\ student.department = o.department
       THEN 1 ELSE 0)

\* C8: for an existing student and a limit >= 0 the recommendation is the first
\* min(limit, number of openings) entries of the openings in descending
\* score, equal scores in input order: entry j is opening at(j) with its
\* score, and every opening left out ranks behind every entry.
C8_Recommend ==
    (last.op = "recommend" /\ last.code = 200 /\ last.arg[2] >= 0) =>
        LET limit == last.arg[2]
            res == last.body[1]
            student == users[FindById(users, ObjectId(last.arg[1]))]
            n == Len(openings)
            sc(i) == ClaimedScore(student, openings[i])
            at(j) == CHOOSE i \in 1..n : OidStr(openings[i]._id) = res[j].id
            shown == { at(j) : j \in 1..Len(res) }
        IN  /\ Len(res) = (IF limit < n THEN limit ELSE n)
            /\ Len(res) <= limit
            /\ \A j \in 1..Len(res) :
                 /\ \E i \in 1..n : OidStr(openings[i]._id) = res[j].id
                 /\ res[j].match_score = sc(at(j))
                 /\ res[j].department = openings[at(j)].department
                 /\ res[j].skills_required = openings[at(j)].skills_required
            /\ \A j, k \in 1..Len(res) :
                 j < k =>
                    \/ res[j].match_score > res[k].match_score
                    \/ res[j].match_score = res[k].match_score /\ at(j) < at(k)
            /\ \A i \in (1..n) \ shown, j \in 1..Len(res) :
                    \/ sc(i) < res[j].match_score
                    \/ sc(i) = res[j].match_score /\ at(j) < i
            /\ (n = 0 \/ limit = 0) => res = <<>>

\* three openings and limit 2: the last opening scores highest and comes
\* first, the two others tie and the earlier of them is the one shown, with
\* score 0
C8_Witness ==
    /\ last.op = "recommend"
    /\ last.code = 200
    /\ last.arg[2] = 2
    /\ Len(openings) = 3
    /\ Len(last.body[1]) = 2
    /\ last.body[1][1].id = OidStr(openings[3]._id)
    /\ last.body[1][1].match_score = 3
    /\ last.body[1][2].id = OidStr(openings[1]._id)
    /\ last.body[1][2].match_score = 0

\* C9: the certificate_url a "completed" transition writes is a function of
\* the Application alone: one Application is never given two different
\* certificates, and two Applications are never given the same one.
C9_CertificateOfIdentity ==
    \A x, y \in issued : (x.oid = y.oid) <=> (x.url = y.url)

\* C10: an update never changes the number of Applications, never the
\* student_id or opening_id of the one it names and never any field of
\* another one; list and recommend leave the collection as it is; the set of
\* stored (student_id, opening_id) pairs changes in a create alone.
C10_UpdateFrame ==
    [][ /\ last'.op = "update" =>
             /\ Len(apps') = Len(apps)
             /\ \A i \in Indexes(apps) :
                  /\ apps'[i].student_id = apps[i].student_id
                  /\ apps'[i].opening_id = apps[i].opening_id
                  /\ apps'[i]._id = apps[i]._id
                  /\ i # Target(apps, last'.arg[1]) => apps'[i] = apps[i]
        /\ last'.op \in {"list", "recommend"} => apps' = apps
        /\ PairsOf(apps') # PairsOf(apps) => last'.op = "create"
      ]_vars

\* an update wrote to one of two stored Applications
C10_Witness ==
    /\ last.op = "update"
    /\ last.code = 200
    /\ Len(apps) = 2
    /\ \E i \in Indexes(apps) :
         /\ i # Target(apps, last.arg[1])
         /\ apps[i].updated_at = apps[i].created_at
    /\ apps[Target(apps, last.arg[1])].status = "under_review"

====
